---- MODULE Spec2Model ----
(***************************************************************************)
(* Task-management REST API (sandistack/backend-mindset, task-api):        *)
(* TaskService / AuthService / log_activity and the API views that call    *)
(* them, over one relational store running in autocommit mode.             *)
(*                                                                         *)
(* Strings the code inspects (titles, search terms) are sequences of       *)
(* one-character strings; strings it only copies are TLA+ strings.         *)
(***************************************************************************)
EXTENDS Integers, Sequences, FiniteSets, TLC

VARIABLES
    users,      \* table of User rows: pk -> row
    tasks,      \* table "tasks": pk -> row (DOMAIN = the rows that exist)
    audit,      \* table "audit_logs" in insertion order
    nextTaskId, \* the autoincrement primary key of "tasks"
    clock,      \* the database clock read by auto_now / auto_now_add
    proc,       \* one record per API worker: the request it is serving
    hist,       \* history of the calls made so far (observation only)
    listed      \* observation of get_user_tasks: last arguments and result

vars == <<users, tasks, audit, nextTaskId, clock, proc, hist, listed>>

----------------------------------------------------------------------------
(* Bounds of the model                                                     *)

MaxCalls == 2          \* API requests issued in one behaviour
MaxTasks == 1          \* primary keys a request may name

Procs == {"w1", "w2"}  \* concurrent API workers

----------------------------------------------------------------------------
(* Values                                                                  *)

Anonymous == 0         \* user=None of an audit entry
NoDate == <<>>         \* due_date = None
NoExc == [type |-> "None", msg |-> ""]   \* no exception pending
NoData == <<>>         \* 'data': None of a response envelope

\* every field value is a tuple of strings: a text is the tuple of its
\* characters, an enumeration member is a one-element tuple
STATUS_CHOICES == {<<"TODO">>, <<"IN_PROGRESS">>, <<"DONE">>}
PRIORITY_CHOICES == {<<"LOW">>, <<"MEDIUM">>, <<"HIGH">>}

\* Meta.fields that lists the owner as well
FieldOrder_WithUser ==
    <<"title", "description", "status", "priority", "due_date", "user">>

\* the writable fields of TaskCreateUpdateSerializer, in declaration order
FieldOrder == <<"title", "description", "status", "priority", "due_date">>

S_abc  == <<"a", "b", "c">>
S_Milk == <<"M", "i", "l", "k">>
S_padded == <<" ", "a", "b", "c", " ">>
S_ab   == <<"a", "b">>
S_ali  == <<"a", "l", "i">>
S_bob  == <<"b", "o", "b">>
S_root == <<"r", "o", "o", "t">>
S_cal  == <<"c", "a", "l">>
S_zed  == <<"z", "e", "d">>

----------------------------------------------------------------------------
(* String helpers                                                          *)

IsSpace(c) == c = " "

RECURSIVE LStrip(_)
LStrip(s) == IF s # <<>> /\ IsSpace(Head(s)) THEN LStrip(Tail(s)) ELSE s

RECURSIVE RStrip(_)
RStrip(s) ==
    IF s # <<>> /\ IsSpace(s[Len(s)]) THEN RStrip(SubSeq(s, 1, Len(s) - 1)) ELSE s

\* str.strip()
Strip(s) == RStrip(LStrip(s))

\* the letters and digits of the model's alphabet
UpperToLower ==
    ("A" :> "a") @@ ("B" :> "b") @@ ("D" :> "d") @@ ("I" :> "i") @@
    ("K" :> "k") @@ ("L" :> "l") @@ ("M" :> "m") @@ ("X" :> "x")
LowerLetters ==
    {"a", "b", "c", "d", "e", "i", "k", "l", "m", "n", "o", "r", "t", "x", "z"}
Digits == {"0", "1", "2", "3", "4", "5", "6", "7", "8", "9"}

LowerChar(c) == IF c \in DOMAIN UpperToLower THEN UpperToLower[c] ELSE c

\* str.lower()
Lower(s) == [i \in 1..Len(s) |-> LowerChar(s[i])]

\* str.isalnum(): non-empty and made of letters and digits
IsAlnum(s) ==
    /\ s # <<>>
    /\ \A i \in 1..Len(s) :
           s[i] \in LowerLetters \cup DOMAIN UpperToLower \cup Digits

\* str.replace(old, '') for a one-character old
Remove(s, old) == SelectSeq(s, LAMBDA c : c # old)

----------------------------------------------------------------------------
(* Users                                                                   *)

\* make_password / check_password of django.contrib.auth.hashers
make_password(raw) == <<"pbkdf2_sha256", raw>>
check_password(raw, encoded) == encoded = make_password(raw)

User(name, email, pw, active, staff, super) ==
    [username |-> name, email |-> email, password |-> make_password(pw),
     is_active |-> active, is_staff |-> staff, is_superuser |-> super]

\* the accounts present when the API starts serving
InitUsers ==
    1 :> User(S_ali, <<"a", "@", "x">>, "pw-ali", TRUE, FALSE, FALSE) @@
    2 :> User(S_bob, <<"b", "@", "x">>, "pw-bob", TRUE, FALSE, FALSE) @@
    3 :> User(S_root, <<"r", "@", "x">>, "pw-root", TRUE, TRUE, TRUE) @@
    4 :> User(S_cal, <<"c", "@", "x">>, "pw-cal", FALSE, FALSE, FALSE)

\* IsAuthenticated: the JWT authentication only yields active users
AuthenticatedUsers == {u \in DOMAIN users : users[u].is_active}

----------------------------------------------------------------------------
(* Tasks                                                                   *)

NoTask ==
    [id |-> 0, user |-> Anonymous, title |-> <<>>, description |-> <<>>,
     status |-> <<>>, priority |-> <<>>, due_date |-> NoDate,
     created_at |-> 0, updated_at |-> 0]

\* a row of "tasks" as the ORM loads it
Row(pk) == tasks[pk]

----------------------------------------------------------------------------
(* TaskCreateUpdateSerializer: request.data is a function from the field   *)
(* names the body holds to their values                                    *)

\* the value a field holds after its to_internal_value and validate_<field>
CleanField(f, v) ==
    CASE f = "title" -> Strip(Strip(v))
      [] f = "description" -> Strip(v)
      [] OTHER -> v

\* the serializer checking the title only
FieldError_TitleOnly(data, f, partial) ==
    IF f \notin DOMAIN data
    THEN f = "title" /\ ~partial
    ELSE f = "title" /\ (Strip(data[f]) = <<>> \/ Len(Strip(Strip(data[f]))) < 3)

\* TRUE iff the field is rejected
FieldError(data, f, partial) ==
    IF f \notin DOMAIN data
    THEN f = "title" /\ ~partial                 \* required field
    ELSE CASE f = "title" ->
                 \/ Strip(data[f]) = <<>>        \* CharField: may not be blank
                 \/ Len(Strip(Strip(data[f]))) < 3
           [] f = "status" -> data[f] \notin STATUS_CHOICES
           [] f = "priority" -> data[f] \notin PRIORITY_CHOICES
           [] OTHER -> FALSE

is_valid(data, partial) ==
    \A i \in 1..Len(FieldOrder) : ~FieldError(data, FieldOrder[i], partial)

\* serializer.validated_data: the fields present, in declaration order
validated_data(data) ==
    LET present == SelectSeq(FieldOrder, LAMBDA f : f \in DOMAIN data)
    IN  [i \in 1..Len(present) |->
            <<present[i], CleanField(present[i], data[present[i]])>>]

----------------------------------------------------------------------------
(* Optional values and the request context                                 *)

\* a value that may be None: a query parameter or a header
\* (request.query_params.get(name), request.META.get(name)) is None when it
\* is absent, else its text ('' for "?status=")
Param(value) == [present |-> TRUE, value |-> value]
AbsentParam == [present |-> FALSE, value |-> <<>>]

\* Python truthiness of such a value: None and '' are falsy
Truthy(param) == param.present /\ param.value \notin {<<>>, <<"">>}

\* request=None
NoRequest ==
    [given |-> FALSE,
     META |-> [HTTP_X_FORWARDED_FOR |-> AbsentParam, REMOTE_ADDR |-> AbsentParam]]

\* a request with its META entries
HttpRequest(x_forwarded_for, remote_addr) ==
    [given |-> TRUE,
     META |-> [HTTP_X_FORWARDED_FOR |-> x_forwarded_for,
               REMOTE_ADDR |-> remote_addr]]

\* the requests of the API's client: a direct connection from one address
ClientRequest == HttpRequest(AbsentParam, Param(<<"9">>))

\* text.split(',')[0]
RECURSIVE FirstElement(_)
FirstElement(text) ==
    IF text = <<>> \/ Head(text) = "," THEN <<>>
    ELSE <<Head(text)>> \o FirstElement(Tail(text))

\* get_client_ip(request)
get_client_ip(request) ==
    LET x_forwarded_for == request.META.HTTP_X_FORWARDED_FOR
    IN  IF Truthy(x_forwarded_for)
        THEN Param(Strip(FirstElement(x_forwarded_for.value)))
        ELSE request.META.REMOTE_ADDR

----------------------------------------------------------------------------
(* log_activity                                                            *)

Desc(text, arg, changes, exc) ==
    [text |-> text, arg |-> arg, changes |-> changes, exc |-> exc]

\* the address taken from the forwarded-for header as it is, untrimmed
ip_address_Untrimmed(request) ==
    IF ~request.given THEN AbsentParam
    ELSE LET x_forwarded_for == request.META.HTTP_X_FORWARDED_FOR
         IN  IF Truthy(x_forwarded_for)
             THEN Param(FirstElement(x_forwarded_for.value))
             ELSE request.META.REMOTE_ADDR

\* "Extract IP from request" of log_activity
ip_address(request) ==
    IF ~request.given THEN AbsentParam
    ELSE LET x_forwarded_for == request.META.HTTP_X_FORWARDED_FOR
         IN  IF Truthy(x_forwarded_for)
             THEN Param(Strip(FirstElement(x_forwarded_for.value)))
             ELSE request.META.REMOTE_ADDR

\* log_activity that keeps only the latest entry
log_activity_Overwrite(user, action, feature, description, request, c, status) ==
    <<[timestamp |-> clock, user |-> user, action |-> action,
       feature |-> feature, description |-> description,
       ip_address |-> ip_address(request), status |-> status, call |-> c]>>

\* the audit table after log_activity(...) called on behalf of call c
log_activity(user, action, feature, description, request, c, status) ==
    Append(audit, [timestamp |-> clock, user |-> user, action |-> action,
                   feature |-> feature, description |-> description,
                   ip_address |-> ip_address(request),
                   status |-> status, call |-> c])

----------------------------------------------------------------------------
(* TaskService helpers                                                     *)

\* Task.objects.create(user=user, **validated_data)
NewTask(pk, user, vd) ==
    LET given == {vd[i][1] : i \in 1..Len(vd)}
        val(f, default) ==
            IF f \in given
            THEN vd[CHOOSE i \in 1..Len(vd) : vd[i][1] = f][2]
            ELSE default
    IN  [id |-> pk, user |-> user,
         title |-> val("title", <<>>),
         description |-> val("description", <<>>),
         status |-> val("status", <<"TODO">>),
         priority |-> val("priority", <<"MEDIUM">>),
         due_date |-> val("due_date", NoDate),
         created_at |-> clock, updated_at |-> clock]

\* the loop recording a transition for every key of validated_data
RECURSIVE UpdateLoop_RecordsAll(_, _)
UpdateLoop_RecordsAll(task, vd) ==
    IF vd = <<>>
    THEN [task |-> task, changes |-> <<>>]
    ELSE LET key == Head(vd)[1]
             value == Head(vd)[2]
             rest == UpdateLoop_RecordsAll([task EXCEPT ![key] = value], Tail(vd))
         IN  [task |-> rest.task,
              changes |-> <<[key |-> key, old |-> task[key], new |-> value]>>
                          \o rest.changes]

\* the loop of update_task over validated_data.items(): the instance after
\* the setattr calls and the list of changes
RECURSIVE UpdateLoop(_, _)
UpdateLoop(task, vd) ==
    IF vd = <<>>
    THEN [task |-> task, changes |-> <<>>]
    ELSE LET key == Head(vd)[1]
             value == Head(vd)[2]
             old_value == task[key]
             changed == old_value # value
             rest == UpdateLoop(IF changed THEN [task EXCEPT ![key] = value]
                                           ELSE task, Tail(vd))
         IN  [task |-> rest.task,
              changes |-> IF changed
                          THEN <<[key |-> key, old |-> old_value, new |-> value]>>
                               \o rest.changes
                          ELSE rest.changes]

\* f"{key}: {old_value} -> {value}" (the arrow stands for U+2192)
Transition(change) ==
    <<change.key, ": ">> \o change.old \o <<" -> ">> \o change.new

\* ', '.join(texts)
RECURSIVE Join(_)
Join(texts) ==
    IF texts = <<>> THEN <<>>
    ELSE IF Len(texts) = 1 THEN texts[1]
    ELSE texts[1] \o <<", ">> \o Join(Tail(texts))

\* ', '.join(changes) if changes else 'No changes'
change_description(changes) ==
    IF changes # <<>>
    THEN Join([i \in 1..Len(changes) |-> Transition(changes[i])])
    ELSE <<"No changes">>

\* the permission check without the superuser clause
can_user_edit_task_OwnerOnly(user, task) ==
    task.user = user

can_user_edit_task(user, task) ==
    task.user = user \/ users[user].is_superuser

can_user_delete_task(user, task) ==
    task.user = user \/ users[user].is_superuser

----------------------------------------------------------------------------
(* Requests                                                                *)

TaskIds == 1..MaxTasks

\* request bodies sent to POST /tasks
CreateBodies ==
    { ("title" :> S_padded) @@ ("user" :> 2),
      "title" :> S_ab }

\* request bodies sent to PUT|PATCH /tasks/{id}
UpdateBodies ==
    { ("status" :> <<"DONE">>) @@ ("user" :> 2),
      "status" :> <<"BOGUS">>,
      ("title" :> S_Milk) @@ ("priority" :> <<"HIGH">>) @@ ("status" :> <<"TODO">>),
      <<>> }

\* an exception: its class and str(e)
Exc(type, msg) == [type |-> type, msg |-> msg]

\* exceptions the storage layer raises from a write
Exceptions ==
    { Exc("OperationalError", "database is locked"),
      Exc("IntegrityError", "constraint failed") }

Response(code, message, data) ==
    [code |-> code, message |-> message, data |-> data]

NoResp == Response(0, "", NoData)

Idle ==
    [pc |-> "idle", call |-> 0, user |-> Anonymous, task |-> NoTask,
     data |-> <<>>, changes |-> <<>>, exc |-> NoExc]

\* the record of a new call: the request, the service it reached (svc), how
\* the service call ended (outcome), whether its domain write was committed
\* (mutated), the exception caught and the one raised, and the response
Call(verb, user, pk, svc, outcome, resp) ==
    [verb |-> verb, user |-> user, pk |-> pk, arg |-> <<>>, svc |-> svc,
     outcome |-> outcome, mutated |-> FALSE, caught |-> NoExc, raised |-> NoExc,
     resp |-> resp]

\* the dispatcher hands a request to the first idle worker
CanStart(p) ==
    /\ proc[p].pc = "idle"
    /\ p = "w2" => proc["w1"].pc # "idle"
    /\ Len(hist) < MaxCalls

\* a request answered by the view without a service call; arg is what the
\* history keeps of the request (observation)
Answer(verb, user, pk, arg, resp) ==
    /\ hist' = Append(hist, [Call(verb, user, pk, "none", "none", resp)
                             EXCEPT !.arg = arg])
    /\ UNCHANGED <<users, tasks, audit, nextTaskId, clock, proc, listed>>

Answered(verb, user, pk, resp) == Answer(verb, user, pk, <<>>, resp)

\* a request that entered a service at step pc
Enter(p, verb, user, pk, arg, svc, pc, task, data) ==
    /\ hist' = Append(hist, [Call(verb, user, pk, svc, "running", NoResp)
                             EXCEPT !.arg = arg])
    /\ proc' = [proc EXCEPT ![p] =
                   [Idle EXCEPT !.pc = pc, !.call = Len(hist) + 1,
                                !.user = user, !.task = task, !.data = data]]
    /\ UNCHANGED <<users, tasks, audit, nextTaskId, clock, listed>>

Entered(p, verb, user, pk, svc, pc, task, data) ==
    Enter(p, verb, user, pk, <<>>, svc, pc, task, data)

\* what the history keeps of a POST, PUT or PATCH of a task: the instance
\* the view loaded, request.data and serializer.validated_data
TaskRequest(task, data, partial) ==
    [task |-> task, data |-> data,
     validated_data |-> IF is_valid(data, partial) THEN validated_data(data)
                        ELSE <<>>]

\* the service call of worker p ends and the view answers
Finish(p, outcome, raised, resp) ==
    /\ hist' = [hist EXCEPT ![proc[p].call] =
                   [@ EXCEPT !.outcome = outcome, !.raised = raised,
                             !.resp = resp]]
    /\ proc' = [proc EXCEPT ![p] = Idle]

----------------------------------------------------------------------------
(* TaskDetailView.get_object                                               *)

NotFound == Response(404, "Not found.", NoData)
Denied == Response(404, "Task not found or access denied", NoData)

\* get_object without the ownership check
get_object_Unchecked(pk, user) == Row(pk)

\* get_object(pk, user): the task, or NoTask when the permission check fails
\* (called only when the row exists; otherwise get_object_or_404 raises)
get_object(pk, user) ==
    IF ~can_user_edit_task(user, Row(pk)) THEN NoTask ELSE Row(pk)

----------------------------------------------------------------------------
(* POST /tasks: TaskListCreateView.post and TaskService.create_task        *)

TaskCreatePost(p, user, body) ==
    /\ CanStart(p)
    /\ IF ~is_valid(body, FALSE)
       THEN Answer("POST", user, 0, TaskRequest(NoTask, body, FALSE),
                   Response(400, "Validation failed", NoData))
       ELSE Enter(p, "POST", user, 0, TaskRequest(NoTask, body, FALSE),
                  "create_task", "create", NoTask, validated_data(body))

\* Task.objects.create(...) commits the new row
CreateTaskWrite(p) ==
    /\ proc[p].pc = "create"
    /\ LET task == NewTask(nextTaskId, proc[p].user, proc[p].data)
       IN  /\ tasks' = (nextTaskId :> task) @@ tasks
           /\ proc' = [proc EXCEPT ![p].pc = "create_log", ![p].task = task]
    /\ nextTaskId' = nextTaskId + 1
    /\ clock' = clock + 1
    /\ hist' = [hist EXCEPT ![proc[p].call] =
                   [@ EXCEPT !.mutated = TRUE, !.pk = nextTaskId]]
    /\ UNCHANGED <<users, audit, listed>>

\* Task.objects.create(...) raises
CreateTaskFail(p, e) ==
    /\ proc[p].pc = "create"
    /\ proc' = [proc EXCEPT ![p].pc = "create_err", ![p].exc = e]
    /\ hist' = [hist EXCEPT ![proc[p].call].caught = e]
    /\ UNCHANGED <<users, tasks, audit, nextTaskId, clock, listed>>

\* log_activity(CREATE), return task; the view answers 201
CreateTaskLog(p) ==
    /\ proc[p].pc = "create_log"
    /\ audit' = log_activity(proc[p].user, "CREATE", "task",
                             Desc("Created task: ", proc[p].task.title, <<>>, ""),
                             ClientRequest, proc[p].call, "SUCCESS")
    /\ clock' = clock + 1
    /\ Finish(p, "returned", NoExc,
              Response(201, "Task created successfully", <<proc[p].task>>))
    /\ UNCHANGED <<users, tasks, nextTaskId, listed>>

\* except Exception: log_activity(ERROR), raise; the view answers 500
CreateTaskExcept(p) ==
    /\ proc[p].pc = "create_err"
    /\ audit' = log_activity(proc[p].user, "ERROR", "task",
                             Desc("Error creating task: ", <<>>, <<>>, proc[p].exc.msg),
                             ClientRequest, proc[p].call, "FAILED")
    /\ clock' = clock + 1
    /\ Finish(p, "raised", proc[p].exc, Response(500, proc[p].exc.msg, NoData))
    /\ UNCHANGED <<users, tasks, nextTaskId, listed>>

----------------------------------------------------------------------------
(* GET /tasks/{id}: TaskDetailView.get                                     *)

TaskDetailGet(p, user, pk) ==
    /\ CanStart(p)
    /\ Answered("GET", user, pk,
           IF pk \notin DOMAIN tasks THEN NotFound
           ELSE IF get_object(pk, user) = NoTask THEN Denied
           ELSE Response(200, "Task retrieved successfully",
                         <<get_object(pk, user)>>))

----------------------------------------------------------------------------
(* PUT|PATCH /tasks/{id}: TaskDetailView._update_task and update_task      *)

TaskUpdate(p, user, pk, body, partial) ==
    /\ CanStart(p)
    /\ LET verb == IF partial THEN "PATCH" ELSE "PUT"
       IN  IF pk \notin DOMAIN tasks
           THEN Answer(verb, user, pk, TaskRequest(NoTask, body, partial), NotFound)
           ELSE IF get_object(pk, user) = NoTask
                THEN Answer(verb, user, pk, TaskRequest(NoTask, body, partial),
                            Denied)
           ELSE IF ~is_valid(body, partial)
                THEN Answer(verb, user, pk,
                            TaskRequest(get_object(pk, user), body, partial),
                            Response(400, "Validation failed", NoData))
           ELSE Enter(p, verb, user, pk,
                      TaskRequest(get_object(pk, user), body, partial),
                      "update_task", "update",
                      get_object(pk, user), validated_data(body))

\* task.save(): every column of the instance is written (UPDATE, or INSERT
\* when no row has this primary key), updated_at is refreshed
save(task) == (task.id :> [task EXCEPT !.updated_at = clock]) @@ tasks

\* update_task that saves only when the loop has changed a field
UpdateTaskSave_OnlyIfChanged(p) ==
    /\ proc[p].pc = "update"
    /\ LET loop == UpdateLoop(proc[p].task, proc[p].data)
       IN  /\ tasks' = IF loop.changes = <<>> THEN tasks ELSE save(loop.task)
           /\ proc' = [proc EXCEPT ![p].pc = "update_log",
                                   ![p].task = loop.task,
                                   ![p].changes = loop.changes]
    /\ clock' = clock + 1
    /\ hist' = [hist EXCEPT ![proc[p].call].mutated = TRUE]
    /\ UNCHANGED <<users, audit, nextTaskId, listed>>

\* the change loop, then task.save() commits
UpdateTaskSave(p) ==
    /\ proc[p].pc = "update"
    /\ LET loop == UpdateLoop(proc[p].task, proc[p].data)
       IN  /\ tasks' = save(loop.task)
           /\ proc' = [proc EXCEPT ![p].pc = "update_log",
                                   ![p].task = save(loop.task)[loop.task.id],
                                   ![p].changes = loop.changes]
    /\ clock' = clock + 1
    /\ hist' = [hist EXCEPT ![proc[p].call].mutated = TRUE]
    /\ UNCHANGED <<users, audit, nextTaskId, listed>>

\* task.save() raises
UpdateTaskFail(p, e) ==
    /\ proc[p].pc = "update"
    /\ proc' = [proc EXCEPT ![p].pc = "update_err", ![p].exc = e,
                            ![p].task = UpdateLoop(proc[p].task, proc[p].data).task]
    /\ hist' = [hist EXCEPT ![proc[p].call].caught = e]
    /\ UNCHANGED <<users, tasks, audit, nextTaskId, clock, listed>>

\* log_activity(UPDATE), return task; the view answers 200
UpdateTaskLog(p) ==
    /\ proc[p].pc = "update_log"
    /\ audit' = log_activity(proc[p].user, "UPDATE", "task",
                             Desc("Updated task", proc[p].task.title,
                                  change_description(proc[p].changes), ""),
                             ClientRequest, proc[p].call, "SUCCESS")
    /\ clock' = clock + 1
    /\ Finish(p, "returned", NoExc,
              Response(200, "Task updated successfully", <<proc[p].task>>))
    /\ UNCHANGED <<users, tasks, nextTaskId, listed>>

\* the except branch of update_task raising a new exception instead of
\* re-raising the one it caught
UpdateTaskExcept_Wrapped(p) ==
    /\ proc[p].pc = "update_err"
    /\ audit' = log_activity(proc[p].user, "ERROR", "task",
                             Desc("Error updating task: ", <<>>, <<>>, proc[p].exc.msg),
                             ClientRequest, proc[p].call, "FAILED")
    /\ clock' = clock + 1
    /\ Finish(p, "raised", Exc("RuntimeError", "update failed"),
              Response(500, "update failed", NoData))
    /\ UNCHANGED <<users, tasks, nextTaskId, listed>>

\* except Exception: log_activity(ERROR), raise; the view answers 500
UpdateTaskExcept(p) ==
    /\ proc[p].pc = "update_err"
    /\ audit' = log_activity(proc[p].user, "ERROR", "task",
                             Desc("Error updating task: ", <<>>, <<>>, proc[p].exc.msg),
                             ClientRequest, proc[p].call, "FAILED")
    /\ clock' = clock + 1
    /\ Finish(p, "raised", proc[p].exc, Response(500, proc[p].exc.msg, NoData))
    /\ UNCHANGED <<users, tasks, nextTaskId, listed>>

----------------------------------------------------------------------------
(* DELETE /tasks/{id}: TaskDetailView.delete and TaskService.delete_task   *)

\* delete that hands an id without a row to delete_task
TaskDelete_Unchecked(p, user, pk) ==
    /\ CanStart(p)
    /\ IF pk \notin DOMAIN tasks
       THEN Entered(p, "DELETE", user, pk, "delete_task", "delete_log",
                    [NoTask EXCEPT !.id = pk], <<>>)
       ELSE IF get_object(pk, user) = NoTask
            THEN Answered("DELETE", user, pk, Denied)
       ELSE Entered(p, "DELETE", user, pk, "delete_task", "delete_log",
                    get_object(pk, user), <<>>)

TaskDelete(p, user, pk) ==
    /\ CanStart(p)
    /\ IF pk \notin DOMAIN tasks THEN Answered("DELETE", user, pk, NotFound)
       ELSE IF get_object(pk, user) = NoTask
            THEN Answered("DELETE", user, pk, Denied)
       ELSE IF ~can_user_delete_task(user, get_object(pk, user))
            THEN Answered("DELETE", user, pk,
                     Response(403, "You do not have permission to delete this task",
                              NoData))
       ELSE Entered(p, "DELETE", user, pk, "delete_task", "delete_log",
                    get_object(pk, user), <<>>)

\* delete_task without the log_activity call that precedes task.delete()
DeleteTaskLog_Omitted(p) ==
    /\ proc[p].pc = "delete_log"
    /\ proc' = [proc EXCEPT ![p].pc = "delete"]
    /\ UNCHANGED <<users, tasks, audit, nextTaskId, clock, hist, listed>>

\* "Log BEFORE deletion": log_activity(DELETE, status='SUCCESS')
DeleteTaskLog(p) ==
    /\ proc[p].pc = "delete_log"
    /\ audit' = log_activity(proc[p].user, "DELETE", "task",
                             Desc("Deleted task: ", proc[p].task.title, <<>>, ""),
                             ClientRequest, proc[p].call, "SUCCESS")
    /\ clock' = clock + 1
    /\ proc' = [proc EXCEPT ![p].pc = "delete"]
    /\ UNCHANGED <<users, tasks, nextTaskId, hist, listed>>

\* task.delete() commits (DELETE ... WHERE id = pk; no row need match),
\* the service returns and the view answers 200
DeleteTaskDelete(p) ==
    /\ proc[p].pc = "delete"
    /\ tasks' = [k \in DOMAIN tasks \ {proc[p].task.id} |-> tasks[k]]
    /\ clock' = clock + 1
    /\ hist' = [hist EXCEPT ![proc[p].call] =
                   [@ EXCEPT !.mutated = TRUE, !.outcome = "returned",
                             !.resp = Response(200, "Task deleted successfully",
                                               NoData)]]
    /\ proc' = [proc EXCEPT ![p] = Idle]
    /\ UNCHANGED <<users, audit, nextTaskId, listed>>

\* task.delete() raises
DeleteTaskFail(p, e) ==
    /\ proc[p].pc = "delete"
    /\ proc' = [proc EXCEPT ![p].pc = "delete_err", ![p].exc = e]
    /\ hist' = [hist EXCEPT ![proc[p].call].caught = e]
    /\ UNCHANGED <<users, tasks, audit, nextTaskId, clock, listed>>

\* except Exception: log_activity(ERROR), raise; the view answers 500
DeleteTaskExcept(p) ==
    /\ proc[p].pc = "delete_err"
    /\ audit' = log_activity(proc[p].user, "ERROR", "task",
                             Desc("Error deleting task: ", <<>>, <<>>, proc[p].exc.msg),
                             ClientRequest, proc[p].call, "FAILED")
    /\ clock' = clock + 1
    /\ Finish(p, "raised", proc[p].exc, Response(500, proc[p].exc.msg, NoData))
    /\ UNCHANGED <<users, tasks, nextTaskId, listed>>

----------------------------------------------------------------------------
(* GET /tasks: TaskListCreateView.get and TaskService.get_user_tasks       *)

Filters(status, priority, search) ==
    [status |-> status, priority |-> priority, search |-> search]

RECURSIVE StartsWith(_, _)
StartsWith(text, prefix) ==
    \/ prefix = <<>>
    \/ /\ text # <<>>
       /\ Head(text) = Head(prefix)
       /\ StartsWith(Tail(text), Tail(prefix))

RECURSIVE Contains(_, _)
Contains(text, term) ==
    \/ StartsWith(text, term)
    \/ text # <<>> /\ Contains(Tail(text), term)

\* the lookup field__icontains=term
icontains(text, term) == Contains(Lower(text), Lower(term))

\* get_user_tasks that searches the title only
get_user_tasks_TitleOnly(user, filters) ==
    {pk \in DOMAIN tasks :
        /\ tasks[pk].user = user
        /\ Truthy(filters.status) => tasks[pk].status = filters.status.value
        /\ Truthy(filters.priority) => tasks[pk].priority = filters.priority.value
        /\ Truthy(filters.search) => icontains(tasks[pk].title, filters.search.value)}

\* get_user_tasks(user, filters): the primary keys of the rows of the
\* queryset (a filters dict that is None or empty has no truthy entry)
get_user_tasks(user, filters) ==
    LET queryset0 == {pk \in DOMAIN tasks : tasks[pk].user = user}
        queryset1 == IF Truthy(filters.status)
                     THEN {pk \in queryset0 : tasks[pk].status = filters.status.value}
                     ELSE queryset0
        queryset2 == IF Truthy(filters.priority)
                     THEN {pk \in queryset1 :
                              tasks[pk].priority = filters.priority.value}
                     ELSE queryset1
    IN  IF Truthy(filters.search)
        THEN {pk \in queryset2 :
                 \/ icontains(tasks[pk].title, filters.search.value)
                 \/ icontains(tasks[pk].description, filters.search.value)}
        ELSE queryset2

\* GET /tasks by an authenticated user: the rows handed to the paginator
TaskListGet(user, filters) ==
    /\ listed' = [called |-> TRUE, user |-> user, filters |-> filters,
                  result |-> get_user_tasks(user, filters)]
    /\ UNCHANGED <<users, tasks, audit, nextTaskId, clock, proc, hist>>

----------------------------------------------------------------------------
(* POST /auth/login: LoginView.post and AuthService.login_user             *)

\* request bodies sent to POST /auth/login
LoginBodies ==
    { [username |-> S_ali, password |-> "pw-ali"],
      [username |-> S_ali, password |-> "wrong"],
      [username |-> S_zed, password |-> "pw-ali"],
      [username |-> S_cal, password |-> "pw-cal"],
      [username |-> S_cal, password |-> "wrong"],
      [username |-> S_ali, password |-> ""] }

\* LoginSerializer: both fields are required and may not be blank
login_is_valid(body) == body.username # <<>> /\ body.password # ""

\* settings.AUTHENTICATION_BACKENDS is not set by the files at hand: Django's
\* default ModelBackend rejects inactive users, AllowAllUsersModelBackend
\* returns them
AuthBackends == {"ModelBackend", "AllowAllUsersModelBackend"}

\* django.contrib.auth.authenticate: the user, or Anonymous (None)
authenticate(username, password, backend) ==
    LET found == {u \in DOMAIN users :
                     /\ users[u].username = username
                     /\ check_password(password, users[u].password)
                     /\ backend = "ModelBackend" => users[u].is_active}
    IN  IF found = {} THEN Anonymous ELSE CHOOSE u \in found : TRUE

\* RefreshToken.for_user(user)
Tokens(user) == [access |-> <<"access", user>>, refresh |-> <<"refresh", user>>]

LogItem(user, action, text, arg, exc, status) ==
    [user |-> user, action |-> action, text |-> text, arg |-> arg, exc |-> exc,
     status |-> status]

\* login_user whose failure message tells which credential was wrong
login_user_Leaky(username, password, backend, fault) ==
    LET user == authenticate(username, password, backend)
        known == \E u \in DOMAIN users : users[u].username = username
    IN  IF fault # NoExc
        THEN [raised |-> fault, data |-> NoData,
              log |-> <<LogItem(Anonymous, "ERROR", "Login error: ", <<>>,
                                fault.msg, "FAILED")>>]
        ELSE IF user = Anonymous
        THEN [raised |-> Exc("ValueError", IF known THEN "Wrong password"
                                                    ELSE "Unknown username"),
              data |-> NoData,
              log |-> <<LogItem(Anonymous, "ERROR",
                                "Login failed - invalid credentials: ",
                                username, "", "FAILED")>>]
        ELSE IF ~users[user].is_active
        THEN [raised |-> Exc("ValueError", "Account is inactive"),
              data |-> NoData,
              log |-> <<LogItem(user, "ERROR", "Login failed - inactive account",
                                <<>>, "", "FAILED")>>]
        ELSE [raised |-> NoExc,
              data |-> <<[user |-> user, tokens |-> Tokens(user)]>>,
              log |-> <<LogItem(user, "CREATE", "User logged in successfully",
                                <<>>, "", "SUCCESS")>>]

\* login_user without the audit entry of the invalid-credentials branch
login_user_Unlogged(username, password, backend, fault) ==
    LET user == authenticate(username, password, backend)
    IN  IF fault # NoExc
        THEN [raised |-> fault, data |-> NoData,
              log |-> <<LogItem(Anonymous, "ERROR", "Login error: ", <<>>,
                                fault.msg, "FAILED")>>]
        ELSE IF user = Anonymous
        THEN [raised |-> Exc("ValueError", "Invalid credentials"),
              data |-> NoData, log |-> <<>>]
        ELSE IF ~users[user].is_active
        THEN [raised |-> Exc("ValueError", "Account is inactive"),
              data |-> NoData,
              log |-> <<LogItem(user, "ERROR", "Login failed - inactive account",
                                <<>>, "", "FAILED")>>]
        ELSE [raised |-> NoExc,
              data |-> <<[user |-> user, tokens |-> Tokens(user)]>>,
              log |-> <<LogItem(user, "CREATE", "User logged in successfully",
                                <<>>, "", "SUCCESS")>>]

\* login_user(username, password, request): the exception it raises (NoExc
\* when it returns), the user and tokens it returns, and the log_activity
\* calls it makes; fault is the exception raised inside the try block by
\* authenticate or RefreshToken.for_user (NoExc when they raise none)
login_user(username, password, backend, fault) ==
    LET user == authenticate(username, password, backend)
    IN  IF fault # NoExc
        THEN [raised |-> fault, data |-> NoData,
              log |-> <<LogItem(Anonymous, "ERROR", "Login error: ", <<>>,
                                fault.msg, "FAILED")>>]
        ELSE IF user = Anonymous
        THEN [raised |-> Exc("ValueError", "Invalid credentials"),
              data |-> NoData,
              log |-> <<LogItem(Anonymous, "ERROR",
                                "Login failed - invalid credentials: ",
                                username, "", "FAILED")>>]
        ELSE IF ~users[user].is_active
        THEN [raised |-> Exc("ValueError", "Account is inactive"),
              data |-> NoData,
              log |-> <<LogItem(user, "ERROR", "Login failed - inactive account",
                                <<>>, "", "FAILED")>>]
        ELSE [raised |-> NoExc,
              data |-> <<[user |-> user, tokens |-> Tokens(user)]>>,
              log |-> <<LogItem(user, "CREATE", "User logged in successfully",
                                <<>>, "", "SUCCESS")>>]

\* the answer of LoginView.post to the outcome r of login_user
LoginResponse(r) ==
    IF r.raised = NoExc THEN Response(200, "Login successful", r.data)
    ELSE IF r.raised.type = "ValueError" THEN Response(401, r.raised.msg, NoData)
    ELSE Response(500, "An error occurred during login", NoData)

\* what the credentials of a login are in the current state (observation)
CredentialKind(username, password) ==
    LET named == {u \in DOMAIN users : users[u].username = username}
    IN  IF named = {} THEN "unknown_username"
        ELSE LET u == CHOOSE v \in named : TRUE
             IN  IF ~check_password(password, users[u].password)
                 THEN IF users[u].is_active THEN "wrong_password"
                      ELSE "inactive_wrong_password"
                 ELSE IF users[u].is_active THEN "valid" ELSE "inactive"

\* exceptions raised inside the try block of login_user
LoginFaults == {NoExc, Exc("OperationalError", "database is locked")}

LoginPost(p, body, backend, fault) ==
    /\ CanStart(p)
    /\ IF ~login_is_valid(body)
       THEN Answered("LOGIN", Anonymous, 0,
                     Response(400, "Validation failed", NoData))
       ELSE LET r == login_user(body.username, body.password, backend, fault)
                c == Len(hist) + 1
            IN  /\ audit' =
                       IF r.log = <<>> THEN audit
                       ELSE log_activity(r.log[1].user, r.log[1].action,
                                "authentication",
                                Desc(r.log[1].text, r.log[1].arg, <<>>, r.log[1].exc),
                                ClientRequest, c, r.log[1].status)
                /\ clock' = IF r.log = <<>> THEN clock ELSE clock + 1
                /\ hist' = Append(hist,
                       [Call("LOGIN", Anonymous, 0, "login_user",
                             IF r.raised = NoExc THEN "returned" ELSE "raised",
                             LoginResponse(r))
                        EXCEPT !.arg = [username |-> body.username, backend |-> backend,
                                        kind |-> CredentialKind(body.username,
                                                                body.password)],
                               !.caught = fault, !.raised = r.raised])
                /\ UNCHANGED <<users, tasks, nextTaskId, proc, listed>>

----------------------------------------------------------------------------
(* POST /auth/register: RegisterView.post, RegisterSerializer and          *)
(* AuthService.register_user                                               *)

RegisterBody(username, email, password, password_confirm) ==
    [username |-> username, email |-> email, password |-> password,
     password_confirm |-> password_confirm]

\* request bodies sent to POST /auth/register
RegisterBodies ==
    { RegisterBody(<<"D", "a", "n">>, <<"D", "@", "x">>, "pw-dan", "pw-dan"),
      RegisterBody(<<"A", "l", "i">>, <<"e", "@", "x">>, "pw-eli", "pw-eli"),
      RegisterBody(<<"e", "l", "i">>, <<"B", "@", "x">>, "pw-eli", "pw-eli"),
      RegisterBody(<<"e", "l", "i">>, <<"e", "@", "x">>, "pw-eli", "pw-ile") }

\* validate_username comparing the stored names with the value as it was sent
validate_username_fails_AsSent(value) ==
    \/ \E u \in DOMAIN users : users[u].username = value
    \/ ~IsAlnum(Remove(value, "_"))

\* validate_username raises ValidationError
validate_username_fails(value) ==
    \/ \E u \in DOMAIN users : users[u].username = Lower(value)
    \/ ~IsAlnum(Remove(value, "_"))

\* validate_email raises ValidationError
validate_email_fails(value) ==
    \E u \in DOMAIN users : users[u].email = Lower(value)

\* validate(attrs) raises ValidationError
validate_fails(attrs) == attrs.password # attrs.password_confirm

register_is_valid(body) ==
    /\ body.username # <<>> /\ body.email # <<>> /\ body.password # ""
    /\ ~validate_username_fails(body.username)
    /\ ~validate_email_fails(body.email)
    /\ ~validate_fails(body)

\* serializer.validated_data of a valid body
register_validated_data(body) ==
    << <<"username", Lower(body.username)>>,
       <<"email", Lower(body.email)>>,
       <<"password", <<body.password>>>> >>

\* what a registration request asks for, as the state stands when it is
\* validated (observation): the body, and whether a stored user already has
\* its username or its email, letter case ignored
Registration(body) ==
    [body |-> body,
     taken |-> \E u \in DOMAIN users :
                   \/ Lower(users[u].username) = Lower(body.username)
                   \/ Lower(users[u].email) = Lower(body.email)]

RegisterPost(p, body) ==
    /\ CanStart(p)
    /\ IF ~register_is_valid(body)
       THEN Answer("REGISTER", Anonymous, 0, Registration(body),
                   Response(400, "Validation failed", NoData))
       ELSE Enter(p, "REGISTER", Anonymous, 0, Registration(body),
                  "register_user", "register", NoTask,
                  register_validated_data(body))

\* User.objects.create_user(...) commits the new row; the unique index on
\* username admits no second row of that name
RegisterCreate(p) ==
    /\ proc[p].pc = "register"
    /\ \A u \in DOMAIN users : users[u].username # proc[p].data[1][2]
    /\ LET pk == Cardinality(DOMAIN users) + 1
       IN  /\ users' = users @@
                  (pk :> User(proc[p].data[1][2], proc[p].data[2][2],
                              proc[p].data[3][2][1], TRUE, FALSE, FALSE))
           /\ proc' = [proc EXCEPT ![p].pc = "register_log", ![p].user = pk]
           /\ hist' = [hist EXCEPT ![proc[p].call] =
                          [@ EXCEPT !.mutated = TRUE, !.pk = pk]]
    /\ UNCHANGED <<tasks, audit, nextTaskId, clock, listed>>

\* User.objects.create_user(...) raises: IntegrityError only when a row of
\* that username is stored, OperationalError whenever the database is
\* unavailable
RegisterFail(p, e) ==
    /\ proc[p].pc = "register"
    /\ e.type = "IntegrityError" =>
           \E u \in DOMAIN users : users[u].username = proc[p].data[1][2]
    /\ proc' = [proc EXCEPT ![p].pc = "register_err", ![p].exc = e]
    /\ hist' = [hist EXCEPT ![proc[p].call].caught = e]
    /\ UNCHANGED <<users, tasks, audit, nextTaskId, clock, listed>>

\* log_activity(CREATE, "user"), return user; the view issues the tokens
\* and answers 201
RegisterLog(p) ==
    /\ proc[p].pc = "register_log"
    /\ audit' = log_activity(proc[p].user, "CREATE", "user",
                             Desc("User registered: ",
                                  users[proc[p].user].username, <<>>, ""),
                             ClientRequest, proc[p].call, "SUCCESS")
    /\ clock' = clock + 1
    /\ Finish(p, "returned", NoExc,
              Response(201, "User registered successfully",
                       <<[user |-> proc[p].user, tokens |-> Tokens(proc[p].user)]>>))
    /\ UNCHANGED <<users, tasks, nextTaskId, listed>>

\* except Exception: log_activity(user=None, ERROR, "user"), raise; the view
\* answers 500
RegisterExcept(p) ==
    /\ proc[p].pc = "register_err"
    /\ audit' = log_activity(Anonymous, "ERROR", "user",
                             Desc("Registration failed: ", <<>>, <<>>,
                                  proc[p].exc.msg),
                             ClientRequest, proc[p].call, "FAILED")
    /\ clock' = clock + 1
    /\ Finish(p, "raised", proc[p].exc, Response(500, proc[p].exc.msg, NoData))
    /\ UNCHANGED <<users, tasks, nextTaskId, listed>>

----------------------------------------------------------------------------
(* GET /admin/audit-logs: AuditLogListView.get over a stored audit log     *)

S_sam == <<"s", "a", "m">>
S_AL  == <<"A", "L">>

\* rest_framework.permissions.IsAdminUser.has_permission
IsAdminUser(user) == user # Anonymous /\ users[user].is_staff

AuditFilters(user, action, feature, status) ==
    [user |-> user, action |-> action, feature |-> feature, status |-> status]

\* the text of an audit column
Text(str) ==
    CASE str = "task" -> <<"t", "a", "s", "k">>
      [] str = "user" -> <<"u", "s", "e", "r">>
      [] str = "authentication" -> <<"a", "u", "t", "h">>
      [] OTHER -> <<str>>

RECURSIVE Reverse(_)
Reverse(seq) == IF seq = <<>> THEN <<>> ELSE Append(Reverse(Tail(seq)), Head(seq))

\* AuditLog.objects.all() under Meta.ordering = ['-timestamp'], then the
\* filters of the view
audit_queryset(filters) ==
    LET user_ok(e) ==
            Truthy(filters.user) =>
                /\ e.user # Anonymous
                /\ icontains(users[e.user].username, filters.user.value)
        action_ok(e) ==
            Truthy(filters.action) => <<e.action>> = filters.action.value
        feature_ok(e) ==
            Truthy(filters.feature) =>
                icontains(Text(e.feature), filters.feature.value)
        status_ok(e) ==
            Truthy(filters.status) => <<e.status>> = filters.status.value
    IN  SelectSeq(Reverse(audit),
                  LAMBDA e : user_ok(e) /\ action_ok(e) /\ feature_ok(e) /\ status_ok(e))

\* GET /admin/audit-logs by user (Anonymous: no credentials sent)
AuditLogListGet(p, user, filters) ==
    /\ CanStart(p)
    /\ Answered("AUDIT_LIST", user, 0,
           IF user = Anonymous
           THEN Response(401, "Authentication credentials were not provided.",
                         NoData)
           ELSE IF ~IsAdminUser(user)
           THEN Response(403, "You do not have permission to perform this action.",
                         NoData)
           ELSE Response(200, "Audit logs retrieved successfully",
                         audit_queryset(filters)))

\* a request without query parameters
NoAuditFilters == AuditFilters(AbsentParam, AbsentParam, AbsentParam, AbsentParam)

----------------------------------------------------------------------------
(* GET /auth/profile: ProfileView.get                                      *)

\* UserSerializer(user).data
UserData(user) ==
    [id |-> user, username |-> users[user].username, email |-> users[user].email]

ProfileGet(p, user) ==
    /\ CanStart(p)
    /\ Answered("PROFILE", user, 0,
           Response(200, "Profile retrieved successfully", <<UserData(user)>>))

----------------------------------------------------------------------------
(* The worker process dies (power loss, kill -9) in the middle of a call:  *)
(* what was committed stays, the rest of the call never runs               *)

Crash(p) ==
    /\ proc[p].pc # "idle"
    /\ hist' = [hist EXCEPT ![proc[p].call].outcome = "crashed"]
    /\ proc' = [proc EXCEPT ![p] = Idle]
    /\ UNCHANGED <<users, tasks, audit, nextTaskId, clock, listed>>

----------------------------------------------------------------------------
(* The task API                                                            *)

NoListing ==
    [called |-> FALSE, user |-> Anonymous,
     filters |-> Filters(AbsentParam, AbsentParam, AbsentParam), result |-> {}]

Init ==
    /\ users = InitUsers
    /\ tasks = <<>>
    /\ audit = <<>>
    /\ nextTaskId = 1
    /\ clock = 1
    /\ proc = [p \in Procs |-> Idle]
    /\ hist = <<>>
    /\ listed = NoListing

TaskNext ==
    \E p \in Procs :
        \/ \E u \in AuthenticatedUsers, b \in CreateBodies : TaskCreatePost(p, u, b)
        \/ CreateTaskWrite(p)
        \/ \E e \in Exceptions : CreateTaskFail(p, e)
        \/ CreateTaskLog(p)
        \/ CreateTaskExcept(p)
        \/ \E u \in AuthenticatedUsers, pk \in TaskIds : TaskDetailGet(p, u, pk)
        \/ \E u \in AuthenticatedUsers, pk \in TaskIds, b \in UpdateBodies,
              partial \in BOOLEAN : TaskUpdate(p, u, pk, b, partial)
        \/ UpdateTaskSave(p)
        \/ \E e \in Exceptions : UpdateTaskFail(p, e)
        \/ UpdateTaskLog(p)
        \/ UpdateTaskExcept(p)
        \/ \E u \in AuthenticatedUsers, pk \in TaskIds : TaskDelete(p, u, pk)
        \/ DeleteTaskLog(p)
        \/ DeleteTaskDelete(p)
        \/ \E e \in Exceptions : DeleteTaskFail(p, e)
        \/ DeleteTaskExcept(p)
        \/ Crash(p)

AuthNext ==
    \E p \in Procs :
        \/ \E b \in LoginBodies, k \in AuthBackends, f \in LoginFaults :
               LoginPost(p, b, k, f)
        \/ \E b \in RegisterBodies : RegisterPost(p, b)
        \/ RegisterCreate(p)
        \/ \E e \in Exceptions : RegisterFail(p, e)
        \/ RegisterLog(p)
        \/ RegisterExcept(p)
        \/ \E u \in AuthenticatedUsers : ProfileGet(p, u)
        \/ \E u \in AuthenticatedUsers : AuditLogListGet(p, u, NoAuditFilters)

Next == TaskNext \/ AuthNext

Spec == Init /\ [][Next]_vars

----------------------------------------------------------------------------
(* The task API serving a table that holds a task                          *)

\* a task of ali, created by an earlier POST /tasks and since set to DONE
StoredTask ==
    [id |-> 1, user |-> 1, title |-> S_abc, description |-> <<>>,
     status |-> <<"DONE">>, priority |-> <<"HIGH">>, due_date |-> NoDate,
     created_at |-> 1, updated_at |-> 2]

InitStored ==
    /\ users = InitUsers
    /\ tasks = (1 :> StoredTask)
    /\ audit = <<>>
    /\ nextTaskId = 2
    /\ clock = 3
    /\ proc = [p \in Procs |-> Idle]
    /\ hist = <<>>
    /\ listed = NoListing

\* PUT|PATCH /tasks/{id} requests, served concurrently
NextStored ==
    \E p \in Procs :
        \/ \E u \in AuthenticatedUsers, pk \in TaskIds, b \in UpdateBodies,
              partial \in BOOLEAN : TaskUpdate(p, u, pk, b, partial)
        \/ UpdateTaskSave(p)
        \/ \E e \in Exceptions : UpdateTaskFail(p, e)
        \/ UpdateTaskLog(p)
        \/ UpdateTaskExcept(p)
        \/ Crash(p)

SpecStored == InitStored /\ [][NextStored]_vars

----------------------------------------------------------------------------
(* Concurrent PATCH /tasks/1 requests of the owner, each naming one field  *)

PatchBodies ==
    { "title" :> S_Milk,
      "priority" :> <<"LOW">>,
      "status" :> <<"TODO">> }

NextPatch ==
    \E p \in Procs :
        \/ \E b \in PatchBodies : TaskUpdate(p, 1, 1, b, TRUE)
        \/ UpdateTaskSave(p)
        \/ \E e \in Exceptions : UpdateTaskFail(p, e)
        \/ UpdateTaskLog(p)
        \/ UpdateTaskExcept(p)
        \/ Crash(p)

SpecPatch == InitStored /\ [][NextPatch]_vars

----------------------------------------------------------------------------
(* Validation: POST /tasks and PUT|PATCH /tasks/{id} with bodies that the  *)
(* serializer must reject, and some it accepts                             *)

S_short == <<" ", "a", "b", " ">>
S_blank == <<" ", " ", " ">>

ValidationBodies ==
    { "title" :> S_short,
      "title" :> S_blank,
      ("title" :> S_padded) @@ ("status" :> <<"BOGUS">>),
      ("title" :> S_padded) @@ ("priority" :> <<"BOGUS">>),
      ("title" :> S_padded) @@ ("status" :> <<"DONE">>) @@ ("priority" :> <<"LOW">>),
      "status" :> <<"">>,
      "priority" :> <<"BOGUS">>,
      "priority" :> <<"LOW">> }

\* ali and bob send the bodies; the stored task is ali's
NextValidation ==
    \/ \E b \in ValidationBodies : TaskCreatePost("w1", 1, b)
    \/ CreateTaskWrite("w1")
    \/ CreateTaskLog("w1")
    \/ \E u \in {1, 2}, pk \in TaskIds, b \in ValidationBodies, partial \in BOOLEAN :
           TaskUpdate("w1", u, pk, b, partial)
    \/ UpdateTaskSave("w1")
    \/ UpdateTaskLog("w1")

SpecValidation == InitStored /\ [][NextValidation]_vars

----------------------------------------------------------------------------
(* Listing: get_user_tasks applied to stored tasks                         *)

MaxListTasks == 2      \* rows in the table that is listed

S_milk == <<"m", "i", "l", "k">>
S_MIL  == <<"M", "I", "L">>

ListRow(user, title, description, status, priority) ==
    [NoTask EXCEPT !.user = user, !.title = title, !.description = description,
                   !.status = status, !.priority = priority,
                   !.created_at = 1, !.updated_at = 1]

\* rows the task API can have stored
ListRows ==
    { ListRow(1, S_Milk, <<>>, <<"TODO">>, <<"HIGH">>),
      ListRow(1, S_abc, S_milk, <<"DONE">>, <<"LOW">>),
      ListRow(2, S_Milk, <<>>, <<"TODO">>, <<"HIGH">>),
      ListRow(1, S_abc, <<>>, <<"TODO">>, <<"MEDIUM">>) }

StatusParams == {AbsentParam, Param(<<"">>), Param(<<"TODO">>), Param(<<"DONE">>)}
PriorityParams == {AbsentParam, Param(<<"HIGH">>), Param(<<"LOW">>)}
SearchParams ==
    {AbsentParam, Param(<<>>), Param(S_milk), Param(S_MIL), Param(S_ab)}

InitList ==
    /\ users = InitUsers
    /\ \E n \in 0..MaxListTasks :
           \E rows \in [1..n -> ListRows] :
               /\ tasks = [pk \in 1..n |-> [rows[pk] EXCEPT !.id = pk]]
               /\ nextTaskId = n + 1
    /\ audit = <<>>
    /\ clock = 2
    /\ proc = [p \in Procs |-> Idle]
    /\ hist = <<>>
    /\ listed = NoListing

NextList ==
    \E u \in AuthenticatedUsers, st \in StatusParams, pr \in PriorityParams,
       se \in SearchParams : TaskListGet(u, Filters(st, pr, se))

SpecList == InitList /\ [][NextList]_vars

----------------------------------------------------------------------------
(* Username check: RegisterView.post applied to usernames over a small     *)
(* alphabet, with matching passwords and an email nobody has               *)

MaxNameLen == 2        \* characters in a username that is sent

NameChars == {"a", "B", "7", "_", "-"}

RECURSIVE Names(_)
Names(n) ==
    IF n = 0 THEN {<<>>}
    ELSE Names(n - 1) \cup
         {Append(s, ch) : s \in {t \in Names(n - 1) : Len(t) = n - 1},
                          ch \in NameChars}

NextUsername ==
    \E name \in Names(MaxNameLen) :
        RegisterPost("w1", RegisterBody(name, <<"n", "@", "x">>, "pw-new", "pw-new"))

SpecUsername == Init /\ [][NextUsername]_vars

----------------------------------------------------------------------------
(* GET /admin/audit-logs over a seeded log                                 *)

MaxAuditRows == 1      \* entries in the log that is listed

\* the accounts of a deployment whose admin site has a staff member
AuditUsers ==
    InitUsers @@ (5 :> User(S_sam, <<"s", "@", "x">>, "pw-sam", TRUE, TRUE, FALSE))

AuditRow(user, action, feature, status) ==
    [timestamp |-> 1, user |-> user, action |-> action, feature |-> feature,
     description |-> Desc("", <<>>, <<>>, ""),
     ip_address |-> ip_address(ClientRequest), status |-> status, call |-> 0]

\* entries the services can have written
AuditRows ==
    { AuditRow(1, "CREATE", "task", "SUCCESS"),
      AuditRow(Anonymous, "ERROR", "authentication", "FAILED"),
      AuditRow(2, "ERROR", "task", "FAILED") }

InitAudit ==
    /\ users = AuditUsers
    /\ tasks = <<>>
    /\ \E n \in 0..MaxAuditRows :
           \E rows \in [1..n -> AuditRows] :
               /\ audit = [i \in 1..n |-> [rows[i] EXCEPT !.timestamp = i]]
               /\ clock = n + 1
    /\ nextTaskId = 1
    /\ proc = [p \in Procs |-> Idle]
    /\ hist = <<>>
    /\ listed = NoListing

NextAudit ==
    \E u \in AuthenticatedUsers \cup {Anonymous},
       us \in {AbsentParam, Param(S_AL)},
       ac \in {AbsentParam, Param(<<"ERROR">>)},
       fe \in {AbsentParam, Param(<<"A", "S">>)},
       st \in {AbsentParam, Param(<<"FAILED">>)} :
        AuditLogListGet("w1", u, AuditFilters(us, ac, fe, st))

SpecAudit == InitAudit /\ [][NextAudit]_vars

----------------------------------------------------------------------------
(* Client address: log_activity and get_client_ip applied to requests with *)
(* and without a forwarded-for header                                      *)

MaxHeaderLen == 3      \* characters in a forwarded-for header
MaxLogged == 1         \* entries logged in one behaviour

HeaderChars == {"1", "2", ",", " "}

RECURSIVE Headers(_)
Headers(n) ==
    IF n = 0 THEN {<<>>}
    ELSE Headers(n - 1) \cup
         {Append(h, ch) : h \in {t \in Headers(n - 1) : Len(t) = n - 1},
                          ch \in HeaderChars}

IpRequests ==
    {NoRequest} \cup
    {HttpRequest(x, r) :
        x \in {AbsentParam} \cup {Param(h) : h \in Headers(MaxHeaderLen)},
        r \in {AbsentParam, Param(<<"9">>)}}

\* a service logs an activity for the request (or for none); the history
\* keeps the request and what get_client_ip returns for it
LogActivity(request) ==
    /\ Len(audit) < MaxLogged
    /\ audit' = log_activity(Anonymous, "CREATE", "task",
                             Desc("", <<>>, <<>>, ""), request,
                             Len(hist) + 1, "SUCCESS")
    /\ hist' = Append(hist,
           [Call("LOG", Anonymous, 0, "log_activity", "returned", NoResp)
            EXCEPT !.arg = [request |-> request,
                            client_ip |-> IF request.given
                                          THEN get_client_ip(request)
                                          ELSE AbsentParam]])
    /\ clock' = clock + 1
    /\ UNCHANGED <<users, tasks, nextTaskId, proc, listed>>

NextIp == \E request \in IpRequests : LogActivity(request)

SpecIp == Init /\ [][NextIp]_vars

----------------------------------------------------------------------------
(* Observations used by the properties                                     *)

Calls == 1..Len(hist)

TaskServices == {"create_task", "update_task", "delete_task"}

Completed(c) == hist[c].outcome \in {"returned", "raised"}

\* the audit entries written by call c
EntriesOf(c) == {i \in 1..Len(audit) : audit[i].call = c}

EntriesWith(c, action, feature, status) ==
    {i \in EntriesOf(c) : /\ audit[i].action = action
                          /\ audit[i].feature = feature
                          /\ audit[i].status = status}

\* the action create_task, update_task and delete_task log on success
SuccessAction(svc) ==
    CASE svc = "create_task" -> "CREATE"
      [] svc = "update_task" -> "UPDATE"
      [] svc = "delete_task" -> "DELETE"

\* the task pk was created at some time
EverCreated(pk) ==
    \E c \in Calls : hist[c].svc = "create_task" /\ hist[c].mutated /\ hist[c].pk = pk

\* the authenticated user of the POST /tasks request that created task pk
Creator(pk) ==
    hist[CHOOSE c \in Calls : /\ hist[c].svc = "create_task"
                              /\ hist[c].mutated
                              /\ hist[c].pk = pk].user

----------------------------------------------------------------------------
(* C1: every deleteTask call appends exactly one DELETE/"task" audit entry,*)
(* and appends it before the row is removed: in no state has the call      *)
(* removed the row (or ended) without its DELETE entry being in the log.   *)

C1_DeleteLoggedBeforeRemoval ==
    /\ \A c \in Calls :
           hist[c].svc = "delete_task" =>
               LET n == Cardinality({i \in EntriesOf(c) :
                                        /\ audit[i].action = "DELETE"
                                        /\ audit[i].feature = "task"})
               IN  /\ n <= 1
                   /\ hist[c].mutated => n = 1
                   /\ Completed(c) => n = 1
    /\ \A pk \in 1..(nextTaskId - 1) :
           pk \notin DOMAIN tasks /\ EverCreated(pk) =>
               \E i \in 1..Len(audit) :
                   /\ audit[i].action = "DELETE" /\ audit[i].feature = "task"
                   /\ hist[audit[i].call].svc = "delete_task"
                   /\ hist[audit[i].call].pk = pk

C1_Witness ==
    \E c \in Calls :
        /\ hist[c].svc = "delete_task"
        /\ hist[c].mutated
        /\ hist[c].outcome = "returned"
        /\ hist[c].pk \notin DOMAIN tasks
        /\ EntriesWith(c, "DELETE", "task", "SUCCESS") # {}

----------------------------------------------------------------------------
(* C2: every createTask, updateTask or deleteTask call that completes      *)
(* without raising has appended exactly one SUCCESS entry (CREATE, UPDATE  *)
(* or DELETE, feature "task") and no FAILED entry; and once every call has *)
(* returned or raised, the number of SUCCESS task entries equals the       *)
(* number of task mutations that succeeded.                                *)

SuccessTaskEntries ==
    {i \in 1..Len(audit) : audit[i].feature = "task" /\ audit[i].status = "SUCCESS"}

SucceededMutations ==
    {c \in Calls : hist[c].svc \in TaskServices /\ hist[c].mutated}

C2_OneSuccessPerMutation ==
    /\ \A c \in Calls :
           hist[c].svc \in TaskServices /\ hist[c].outcome = "returned" =>
               /\ Cardinality(EntriesWith(c, SuccessAction(hist[c].svc),
                                          "task", "SUCCESS")) = 1
               /\ \A i \in EntriesOf(c) : audit[i].status = "SUCCESS"
               /\ Cardinality(EntriesOf(c)) = 1
    /\ (\A c \in Calls : hist[c].svc \in TaskServices => Completed(c)) =>
           Cardinality(SuccessTaskEntries) = Cardinality(SucceededMutations)

----------------------------------------------------------------------------
(* C4: the task write and the audit write of one call are atomic: a call   *)
(* that was cut short by a crash has left either both effects or neither   *)
(* (its task mutation is committed iff its SUCCESS entry is in the log).   *)

C4_AtomicAcrossCrash ==
    \A c \in Calls :
        hist[c].svc \in TaskServices /\ hist[c].outcome = "crashed" =>
            (hist[c].mutated <=>
                EntriesWith(c, SuccessAction(hist[c].svc), "task", "SUCCESS") # {})

----------------------------------------------------------------------------
(* C5: canEdit(u, t) and canDelete(u, t) agree and are true exactly when   *)
(* u is the owner of t or a superuser: the user who created a task can     *)
(* always edit it and any other non-superuser never can.                   *)

C5_OwnerOrSuperuser ==
    \A u \in DOMAIN users, t \in DOMAIN tasks :
        /\ can_user_edit_task(u, tasks[t]) = can_user_delete_task(u, tasks[t])
        /\ can_user_edit_task(u, tasks[t]) <=>
               (u = Creator(t) \/ users[u].is_superuser)

C5_Witness ==
    \E t \in DOMAIN tasks, u, v \in DOMAIN users :
        /\ u # Creator(t) /\ users[u].is_superuser
        /\ v # Creator(t) /\ ~users[v].is_superuser
        /\ can_user_edit_task(Creator(t), tasks[t])
        /\ can_user_edit_task(u, tasks[t])
        /\ ~can_user_delete_task(v, tasks[t])
        /\ \E c \in Calls : hist[c].svc = "update_task" /\ hist[c].mutated
                            /\ hist[c].pk = t

----------------------------------------------------------------------------
(* C6: a GET/PUT/PATCH/DELETE /tasks/{id} request returns, changes or      *)
(* removes a task only when its user is the task's owner or a superuser;   *)
(* a request by any other user reaches no service, returns no task data    *)
(* and leaves the task rows and the audit log unchanged.                   *)

DetailVerbs == {"GET", "PUT", "PATCH", "DELETE"}

\* the user of call c is the owner of the task it names, or a superuser
Authorized(c) ==
    /\ EverCreated(hist[c].pk)
    /\ \/ hist[c].user = Creator(hist[c].pk)
       \/ users[hist[c].user].is_superuser

C6_Inv ==
    \A c \in Calls :
        hist[c].verb \in DetailVerbs /\ ~Authorized(c) =>
            /\ hist[c].svc = "none"
            /\ hist[c].resp.data = NoData
            /\ EntriesOf(c) = {}

TaskAudit == SelectSeq(audit, LAMBDA e : e.feature = "task")

\* a step that changes a task row or the audit log is a step of a worker
\* whose request is authorized
C6_Step ==
    (tasks' # tasks \/ TaskAudit' # TaskAudit) =>
        \E p \in Procs :
            /\ proc[p].pc # "idle"
            /\ proc'[p] # proc[p]
            /\ hist[proc[p].call].verb \in DetailVerbs => Authorized(proc[p].call)

C6_OwnerOrSuperuserOnly == []C6_Inv /\ [][C6_Step]_vars

C6_Witness ==
    \E c \in Calls :
        /\ hist[c].verb \in DetailVerbs
        /\ EverCreated(hist[c].pk) /\ ~Authorized(c)
        /\ hist[c].pk \in DOMAIN tasks
        /\ hist[c].resp = Denied

----------------------------------------------------------------------------
(* C3: when createTask, updateTask, deleteTask or register has caught an   *)
(* exception and raised, the call has appended exactly one ERROR/FAILED    *)
(* entry (feature "task"; "user" with user=None for register) and the      *)
(* exception raised to the caller is the one that was caught.              *)

ErrorEntries(c) ==
    {i \in EntriesOf(c) : audit[i].action = "ERROR" \/ audit[i].status = "FAILED"}

C3_FailureLoggedThenReraised ==
    \A c \in Calls :
        hist[c].svc \in TaskServices \cup {"register_user"} =>
            /\ hist[c].caught = NoExc => ErrorEntries(c) = {} /\ hist[c].outcome # "raised"
            /\ hist[c].outcome = "raised" =>
                   /\ hist[c].raised = hist[c].caught
                   /\ Cardinality(ErrorEntries(c)) = 1
                   /\ \A i \in ErrorEntries(c) :
                          /\ audit[i].action = "ERROR" /\ audit[i].status = "FAILED"
                          /\ IF hist[c].svc = "register_user"
                             THEN audit[i].feature = "user" /\ audit[i].user = Anonymous
                             ELSE audit[i].feature = "task"

C3_Witness ==
    \E c, d \in Calls :
        /\ hist[c].svc = "register_user" /\ hist[c].outcome = "raised"
        /\ hist[d].svc \in TaskServices /\ hist[d].outcome = "raised"
        /\ ErrorEntries(c) # {} /\ ErrorEntries(d) # {}

----------------------------------------------------------------------------
(* C8: every login request that passes input validation appends exactly    *)
(* one "authentication" audit entry: ERROR/FAILED when login_user raises,  *)
(* in which case no tokens are issued and the API answers 401 for invalid  *)
(* credentials or an inactive account and 500 for an unexpected exception; *)
(* CREATE/SUCCESS attributed to the user when it returns, with an access   *)
(* and a refresh token. A request rejected by validation is answered 400   *)
(* and appends nothing.                                                    *)

LoginEntries(c, action, status) == EntriesWith(c, action, "authentication", status)

C8_LoginAudited ==
    \A c \in Calls :
        hist[c].verb = "LOGIN" =>
            IF hist[c].svc = "none"
            THEN hist[c].resp.code = 400 /\ EntriesOf(c) = {}
            ELSE /\ Cardinality(EntriesOf(c)) = 1
                 /\ hist[c].outcome = "raised" =>
                        /\ Cardinality(LoginEntries(c, "ERROR", "FAILED")) = 1
                        /\ hist[c].resp.data = NoData
                        /\ hist[c].resp.code =
                               IF hist[c].raised.type = "ValueError" THEN 401 ELSE 500
                 /\ hist[c].outcome = "returned" =>
                        /\ Cardinality(LoginEntries(c, "CREATE", "SUCCESS")) = 1
                        /\ hist[c].resp.code = 200
                        /\ hist[c].resp.data # NoData
                        /\ \A i \in EntriesOf(c) :
                               /\ audit[i].user = hist[c].resp.data[1].user
                               /\ hist[c].resp.data[1].tokens = Tokens(audit[i].user)

C8_Witness ==
    \E c, d \in Calls :
        /\ hist[c].svc = "login_user" /\ hist[c].arg.kind = "wrong_password"
        /\ hist[c].resp.code = 401
        /\ LoginEntries(c, "ERROR", "FAILED") # {}
        /\ hist[d].svc = "login_user" /\ hist[d].resp.code = 200
        /\ LoginEntries(d, "CREATE", "SUCCESS") # {}

\* the claim as first stated (for the attempts that reach login_user):
\* exactly one entry, and every failed attempt is answered 401
C8_Original ==
    \A c \in Calls :
        hist[c].svc = "login_user" =>
            /\ Cardinality(EntriesOf(c)) = 1
            /\ hist[c].resp.data = NoData =>
                   /\ Cardinality(LoginEntries(c, "ERROR", "FAILED")) = 1
                   /\ hist[c].resp.code = 401
            /\ hist[c].resp.data # NoData =>
                   /\ Cardinality(LoginEntries(c, "CREATE", "SUCCESS")) = 1
                   /\ \A i \in EntriesOf(c) : audit[i].user = hist[c].resp.data[1].user

----------------------------------------------------------------------------
(* C9: the response of a failed login does not tell which credential was   *)
(* wrong: a login with an unknown username and a login with the username   *)
(* of an active user and a wrong password get the same status code and the *)
(* same message.                                                           *)

C9_SameFailureResponse ==
    \A c, d \in Calls :
        /\ hist[c].svc = "login_user" /\ hist[d].svc = "login_user"
        /\ hist[c].arg.kind = "unknown_username"
        /\ hist[d].arg.kind = "wrong_password"
        /\ hist[c].caught = hist[d].caught
        => /\ hist[c].resp.code = hist[d].resp.code
           /\ hist[c].resp.message = hist[d].resp.message
           /\ hist[c].resp.data = hist[d].resp.data

C9_Witness ==
    \E c, d \in Calls :
        /\ hist[c].svc = "login_user" /\ hist[d].svc = "login_user"
        /\ hist[c].arg.kind = "unknown_username"
        /\ hist[d].arg.kind = "wrong_password"
        /\ hist[c].caught = NoExc /\ hist[d].caught = NoExc
        /\ hist[c].resp.code = 401 /\ hist[d].resp.code = 401

----------------------------------------------------------------------------
(* C10: a login with the right password of a deactivated user fails with   *)
(* the account-inactive error (not the invalid-credentials error), appends *)
(* one ERROR/"authentication"/FAILED entry attributed to that user and     *)
(* issues no tokens.                                                       *)

C10_InactiveRejectedAsInactive ==
    \A c \in Calls :
        /\ hist[c].svc = "login_user"
        /\ hist[c].arg.kind = "inactive"
        /\ hist[c].caught = NoExc
        => /\ hist[c].raised = Exc("ValueError", "Account is inactive")
           /\ hist[c].resp.message = "Account is inactive"
           /\ hist[c].resp.data = NoData
           /\ Cardinality(LoginEntries(c, "ERROR", "FAILED")) = 1
           /\ \A i \in EntriesOf(c) :
                  /\ audit[i].user # Anonymous
                  /\ users[audit[i].user].username = hist[c].arg.username

----------------------------------------------------------------------------
(* C7: listTasks(owner, filters) returns exactly the owner's tasks that    *)
(* satisfy every filter that is present and not empty: status and priority *)
(* equal to the filter, the search term a case-insensitive substring of    *)
(* the title or of the description; an absent or empty filter restricts    *)
(* nothing and no task of another user is ever returned.                   *)

\* term occurs in text at some offset, ignoring letter case
OccursIgnoringCase(text, term) ==
    \E k \in 0..(Len(text) - Len(term)) :
        \A j \in 1..Len(term) : LowerChar(text[k + j]) = LowerChar(term[j])

InForce(param) == param.present /\ param.value # <<>> /\ param.value # <<"">>

Matching(user, filters, inForce(_)) ==
    {pk \in DOMAIN tasks :
        /\ tasks[pk].user = user
        /\ inForce(filters.status) => tasks[pk].status = filters.status.value
        /\ inForce(filters.priority) => tasks[pk].priority = filters.priority.value
        /\ inForce(filters.search) =>
               \/ OccursIgnoringCase(tasks[pk].title, filters.search.value)
               \/ OccursIgnoringCase(tasks[pk].description, filters.search.value)}

C7_ListIsFilteredOwnTasks ==
    listed.called =>
        /\ listed.result = Matching(listed.user, listed.filters, InForce)
        /\ \A pk \in listed.result : tasks[pk].user = listed.user

C7_Witness ==
    /\ listed.called
    /\ InForce(listed.filters.search) /\ InForce(listed.filters.status)
    /\ listed.result # {}
    /\ \E pk \in listed.result :
           ~OccursIgnoringCase(tasks[pk].title, listed.filters.search.value)
    /\ \E pk \in DOMAIN tasks : tasks[pk].user # listed.user

\* the claim as first stated: every filter that is present restricts
Present(param) == param.present

C7_Original ==
    listed.called =>
        listed.result = Matching(listed.user, listed.filters, Present)

----------------------------------------------------------------------------
(* C11: a registration whose username or email equals, letter case         *)
(* ignored, the username or email of a user stored when the request is     *)
(* validated is answered 400 without reaching register_user: it creates no *)
(* User row and leaves the stored users unchanged. The comparison is on    *)
(* the lowercase form, which is the form every stored user has.            *)

C11_Inv ==
    /\ \A c \in Calls :
           hist[c].verb = "REGISTER" /\ hist[c].arg.taken =>
               /\ hist[c].resp.code = 400
               /\ hist[c].svc = "none"
               /\ ~hist[c].mutated
               /\ EntriesOf(c) = {}
    /\ \A u \in DOMAIN users :
           /\ users[u].username = Lower(users[u].username)
           /\ users[u].email = Lower(users[u].email)

\* the step that answers such a registration leaves the users as they were
C11_Step ==
    (/\ Len(hist') = Len(hist) + 1
     /\ hist'[Len(hist')].verb = "REGISTER"
     /\ hist'[Len(hist')].arg.taken) => users' = users

----------------------------------------------------------------------------
(* C12: with matching passwords and no stored user of that name or email,  *)
(* register accepts a username exactly when it is non-empty and made only  *)
(* of letters, digits and underscores (one made only of underscores        *)
(* included); every other username is answered 400.                        *)

WellFormedUsername(name) ==
    /\ name # <<>>
    /\ \A i \in 1..Len(name) :
           name[i] \in LowerLetters \cup DOMAIN UpperToLower \cup Digits \cup {"_"}

C12_UsernameCharset ==
    \A c \in Calls :
        /\ hist[c].verb = "REGISTER"
        /\ ~hist[c].arg.taken
        /\ hist[c].arg.body.password = hist[c].arg.body.password_confirm
        => (hist[c].svc = "register_user" <=>
                WellFormedUsername(hist[c].arg.body.username))

----------------------------------------------------------------------------
(* C13: GET /admin/audit-logs returns audit entries only to a superuser:   *)
(* every caller that is not a superuser (staff members and normal users    *)
(* included) is refused and receives no audit data.                        *)

C13_AuditListSuperuserOnly ==
    \A c \in Calls :
        /\ hist[c].verb = "AUDIT_LIST"
        /\ ~(hist[c].user # Anonymous /\ users[hist[c].user].is_superuser)
        => /\ hist[c].resp.code \in {401, 403}
           /\ hist[c].resp.data = NoData

----------------------------------------------------------------------------
(* C14: a DELETE /tasks/{id} request for an id that names no stored task   *)
(* is answered 404 without a service call; it appends no audit entry (no   *)
(* DELETE entry in particular) and leaves every task row unchanged.        *)

\* this step receives a request with one of the verbs
Arrives(verbs) ==
    /\ Len(hist') = Len(hist) + 1
    /\ hist'[Len(hist')].verb \in verbs

C14_Step ==
    Arrives({"DELETE"}) /\ hist'[Len(hist')].pk \notin DOMAIN tasks =>
        /\ hist'[Len(hist')].resp.code = 404
        /\ hist'[Len(hist')].svc = "none"
        /\ audit' = audit
        /\ tasks' = tasks

C14_Inv ==
    \A c \in Calls :
        hist[c].verb = "DELETE" /\ hist[c].svc = "none" =>
            /\ hist[c].resp.code = 404
            /\ EntriesOf(c) = {}

C14_DeleteMissingIs404 == []C14_Inv /\ [][C14_Step]_vars

\* a create failed, so that the log is not empty and id 1 names no task,
\* and a DELETE then names that id
C14_Witness ==
    \E c, d \in Calls :
        /\ c < d
        /\ hist[c].svc = "create_task" /\ hist[c].outcome = "raised"
        /\ hist[d].verb = "DELETE" /\ hist[d].pk \notin DOMAIN tasks
        /\ hist[d].resp = NotFound
        /\ audit # <<>>
        /\ \A i \in 1..Len(audit) : audit[i].action # "DELETE"

----------------------------------------------------------------------------
(* C15: a GET, PUT, PATCH or DELETE /tasks/{id} request for a stored task, *)
(* made by an authenticated user who is neither its owner nor a superuser, *)
(* is answered 403; 404 is the answer when no task has that id.            *)

C15_Step ==
    Arrives(DetailVerbs) =>
        LET c == hist'[Len(hist')]
        IN  IF c.pk \notin DOMAIN tasks
            THEN c.resp.code = 404
            ELSE (tasks[c.pk].user # c.user /\ ~users[c.user].is_superuser) =>
                     c.resp.code = 403

C15_ForbiddenIs403 == [][C15_Step]_vars

----------------------------------------------------------------------------
(* C16: the audit log is append-only: every step of every operation        *)
(* (register, login, profile, task create, read, update, delete, audit     *)
(* listing) leaves each stored entry in place with all its fields          *)
(* unchanged, so the log of a later state extends the log of an earlier    *)
(* one.                                                                    *)

C16_Step ==
    /\ Len(audit') >= Len(audit)
    /\ \A i \in 1..Len(audit) : audit'[i] = audit[i]

C16_AuditAppendOnly == [][C16_Step]_vars

\* two calls have each appended an entry, one after the other
C16_Witness ==
    /\ Len(audit) >= 2
    /\ audit[1].call # audit[2].call
    /\ audit[1].timestamp < audit[2].timestamp

----------------------------------------------------------------------------
(* C17: an updateTask call whose payload changes no field of the task it   *)
(* was given (empty payload, or every payload value equal to the task's    *)
(* value) still saves the task: updated_at is refreshed and every other    *)
(* field is as it was; and the call appends exactly one UPDATE/SUCCESS     *)
(* entry, whose description reports "No changes".                          *)

\* the payload of update call c names no value that differs from the task
NoChange(c) ==
    \A i \in 1..Len(hist[c].arg.validated_data) :
        hist[c].arg.task[hist[c].arg.validated_data[i][1]] =
            hist[c].arg.validated_data[i][2]

\* task.save() of worker p commits in this step
Saves(p) == proc[p].pc = "update" /\ proc'[p].pc = "update_log"

C17_Step ==
    \A p \in Procs :
        Saves(p) /\ NoChange(proc[p].call) =>
            LET before == hist[proc[p].call].arg.task
            IN  /\ before.id \in DOMAIN tasks'
                /\ tasks'[before.id].updated_at > before.updated_at
                /\ tasks'[before.id] =
                       [before EXCEPT !.updated_at = tasks'[before.id].updated_at]

C17_Inv ==
    \A c \in Calls :
        /\ hist[c].svc = "update_task"
        /\ hist[c].outcome = "returned"
        /\ NoChange(c)
        => /\ Cardinality(EntriesOf(c)) = 1
           /\ \A i \in EntriesOf(c) :
                  /\ audit[i].action = "UPDATE" /\ audit[i].feature = "task"
                  /\ audit[i].status = "SUCCESS"
                  /\ audit[i].description.changes = <<"No changes">>

C17_NoChangeUpdate == []C17_Inv /\ [][C17_Step]_vars

\* an update with an empty payload and one whose value equals the stored
\* value have both returned
C17_Witness ==
    \E c, d \in Calls :
        /\ hist[c].svc = "update_task" /\ hist[c].outcome = "returned"
        /\ hist[c].arg.validated_data = <<>>
        /\ hist[d].svc = "update_task" /\ hist[d].outcome = "returned"
        /\ hist[d].arg.validated_data # <<>> /\ NoChange(d)
        /\ tasks[1].updated_at > StoredTask.updated_at
        /\ \A i \in 1..Len(audit) : audit[i].description.changes = <<"No changes">>

----------------------------------------------------------------------------
(* C18: the owner of a task created through POST /tasks is the             *)
(* authenticated user of that request, whatever the request body holds (a  *)
(* "user" field included), and no request changes the owner of a stored    *)
(* task.                                                                   *)

C18_Inv ==
    \A pk \in DOMAIN tasks : EverCreated(pk) /\ tasks[pk].user = Creator(pk)

C18_Step ==
    /\ \A pk \in DOMAIN tasks \cap DOMAIN tasks' : tasks'[pk].user = tasks[pk].user
    /\ \A p \in Procs :
           proc[p].pc = "create" /\ proc'[p].pc = "create_log" =>
               /\ nextTaskId \in DOMAIN tasks'
               /\ tasks'[nextTaskId].user = hist[proc[p].call].user

C18_OwnerFromSession == []C18_Inv /\ [][C18_Step]_vars

\* a task was created and then updated, each time with a body that names
\* another user as "user"
C18_Witness ==
    \E c, d \in Calls :
        /\ hist[c].svc = "create_task" /\ hist[c].outcome = "returned"
        /\ "user" \in DOMAIN hist[c].arg.data
        /\ hist[c].arg.data["user"] # hist[c].user
        /\ hist[d].svc = "update_task" /\ hist[d].outcome = "returned"
        /\ hist[d].pk = hist[c].pk
        /\ "user" \in DOMAIN hist[d].arg.data
        /\ hist[d].arg.data["user"] # hist[c].user
        /\ hist[c].pk \in DOMAIN tasks
        /\ tasks[hist[c].pk].user = hist[c].user

----------------------------------------------------------------------------
(* C19: updateTask gives the task the payload's value in exactly the       *)
(* payload fields whose value differs from the task's and leaves every     *)
(* other field (fields absent from the payload, owner, created_at) as it   *)
(* was; the audit description holds one "field: old -> new" transition for *)
(* each changed field, in the order of the payload, and none for a field   *)
(* that did not change.                                                    *)

\* the items of the payload of update call c whose value differs from the
\* value the task has
ChangedItems(c) ==
    SelectSeq(hist[c].arg.validated_data,
              LAMBDA item : hist[c].arg.task[item[1]] # item[2])

ExpectedTransitions(c) ==
    [i \in 1..Len(ChangedItems(c)) |->
        <<ChangedItems(c)[i][1], ": ">>
            \o hist[c].arg.task[ChangedItems(c)[i][1]]
            \o <<" -> ">> \o ChangedItems(c)[i][2]]

C19_Step ==
    \A p \in Procs :
        Saves(p) =>
            LET before == hist[proc[p].call].arg.task
                payload == hist[proc[p].call].arg.validated_data
                named == {payload[i][1] : i \in 1..Len(payload)}
            IN  /\ before.id \in DOMAIN tasks'
                /\ \A i \in 1..Len(payload) :
                       tasks'[before.id][payload[i][1]] = payload[i][2]
                /\ \A f \in DOMAIN before \ (named \cup {"updated_at"}) :
                       tasks'[before.id][f] = before[f]

C19_Inv ==
    \A c \in Calls :
        hist[c].svc = "update_task" /\ hist[c].outcome = "returned" =>
            \A i \in EntriesOf(c) :
                audit[i].description.changes =
                    IF ChangedItems(c) = <<>> THEN <<"No changes">>
                    ELSE Join(ExpectedTransitions(c))

C19_UpdateFrame == []C19_Inv /\ [][C19_Step]_vars

\* a payload of three fields, two of which differ from the task, was applied
C19_Witness ==
    \E c \in Calls :
        /\ hist[c].svc = "update_task" /\ hist[c].outcome = "returned"
        /\ Len(hist[c].arg.validated_data) = 3
        /\ Len(ChangedItems(c)) = 2
        /\ ChangedItems(c)[1][1] = "title" /\ ChangedItems(c)[2][1] = "status"
        /\ EntriesOf(c) # {}
        /\ tasks[hist[c].pk].title = S_Milk
        /\ tasks[hist[c].pk].status = <<"TODO">>
        /\ tasks[hist[c].pk].created_at = StoredTask.created_at

----------------------------------------------------------------------------
(* C20: a POST /tasks request, or a PUT/PATCH /tasks/{id} request for a    *)
(* task the caller may edit, whose title has fewer than 3 characters after *)
(* trimming, or whose status or priority is outside its enumeration, is    *)
(* answered 400 before any service call (a PUT/PATCH for a task that is    *)
(* missing or not the caller's is answered 404 whatever its body): no task *)
(* is created or changed and no audit entry is appended; and in every      *)
(* state each stored task has a trimmed title of at least 3 characters, a  *)
(* status in {TODO, IN_PROGRESS, DONE} and a priority in {LOW, MEDIUM,     *)
(* HIGH}.                                                                  *)

WriteVerbs == {"POST", "PUT", "PATCH"}

\* the body has a title that is too short or a value outside an enumeration
Offending(data) ==
    \/ "title" \in DOMAIN data /\ Len(Strip(data["title"])) < 3
    \/ "status" \in DOMAIN data
           /\ data["status"] \notin {<<"TODO">>, <<"IN_PROGRESS">>, <<"DONE">>}
    \/ "priority" \in DOMAIN data
           /\ data["priority"] \notin {<<"LOW">>, <<"MEDIUM">>, <<"HIGH">>}

StoredTasksValid ==
    \A pk \in DOMAIN tasks :
        /\ Len(Strip(tasks[pk].title)) >= 3
        /\ tasks[pk].status \in {<<"TODO">>, <<"IN_PROGRESS">>, <<"DONE">>}
        /\ tasks[pk].priority \in {<<"LOW">>, <<"MEDIUM">>, <<"HIGH">>}

\* the view loaded the task of call c (PUT/PATCH) or needs none (POST)
ReachesValidation(c) == hist[c].verb = "POST" \/ hist[c].arg.task # NoTask

C20_Inv ==
    /\ StoredTasksValid
    /\ \A c \in Calls :
           hist[c].verb \in WriteVerbs /\ Offending(hist[c].arg.data) =>
               /\ hist[c].resp.code = IF ReachesValidation(c) THEN 400 ELSE 404
               /\ hist[c].svc = "none"
               /\ EntriesOf(c) = {}

C20_Step ==
    Arrives(WriteVerbs) /\ Offending(hist'[Len(hist')].arg.data) =>
        tasks' = tasks /\ audit' = audit

C20_InvalidIs400 == []C20_Inv /\ [][C20_Step]_vars

\* a POST with a short title and a PATCH of the stored task with an
\* unknown status were both answered 400
C20_Witness ==
    \E c, d \in Calls :
        /\ hist[c].verb = "POST" /\ hist[c].arg.data = ("title" :> S_short)
        /\ hist[c].resp.code = 400
        /\ hist[d].verb = "PATCH" /\ hist[d].arg.task = StoredTask
        /\ "status" \in DOMAIN hist[d].arg.data
        /\ Offending(hist[d].arg.data)
        /\ hist[d].resp.code = 400
        /\ tasks = (1 :> StoredTask)
        /\ audit = <<>>

\* the claim as first stated: every such request is answered 400
C20_Original ==
    \A c \in Calls :
        hist[c].verb \in WriteVerbs /\ Offending(hist[c].arg.data) =>
            /\ hist[c].resp.code = 400
            /\ hist[c].svc = "none"
            /\ EntriesOf(c) = {}

----------------------------------------------------------------------------
(* C21: when a task or registration service operation raises an unexpected *)
(* exception, the API answers 500 with a fixed generic message: the        *)
(* message is the same for every exception and never holds the text of the *)
(* exception that was raised.                                              *)

C21_GenericErrorMessage ==
    \A c, d \in Calls :
        /\ hist[c].svc \in TaskServices \cup {"register_user"}
        /\ hist[c].outcome = "raised"
        /\ hist[d].svc \in TaskServices \cup {"register_user"}
        /\ hist[d].outcome = "raised"
        => /\ hist[c].resp.code = 500
           /\ hist[c].resp.message # hist[c].raised.msg
           /\ hist[c].resp.message = hist[d].resp.message

----------------------------------------------------------------------------
(* C22: the IP address stored in an audit entry is the first               *)
(* comma-separated element, trimmed of whitespace, of the forwarded-for    *)
(* header when that header is present and not empty, otherwise the direct  *)
(* connection address, and none when no request is given; log_activity and *)
(* get_client_ip yield the same address for every request.                 *)

\* the length of the text before the first comma
FirstLength(text) ==
    CHOOSE k \in 0..Len(text) :
        /\ \A j \in 1..k : text[j] # ","
        /\ k = Len(text) \/ text[k + 1] = ","

\* the text from its first to its last character that is no space
Trimmed(text) ==
    LET solid == {j \in 1..Len(text) : text[j] # " "}
    IN  IF solid = {} THEN <<>>
        ELSE SubSeq(text, CHOOSE j \in solid : \A k \in solid : j <= k,
                          CHOOSE j \in solid : \A k \in solid : j >= k)

C22_ClientAddress ==
    \A i \in 1..Len(audit) :
        LET request == hist[audit[i].call].arg.request
            header == request.META.HTTP_X_FORWARDED_FOR
        IN  /\ audit[i].ip_address =
                   IF ~request.given THEN AbsentParam
                   ELSE IF header.present /\ header.value # <<>>
                   THEN Param(Trimmed(SubSeq(header.value, 1,
                                             FirstLength(header.value))))
                   ELSE request.META.REMOTE_ADDR
            /\ request.given =>
                   audit[i].ip_address = hist[audit[i].call].arg.client_ip

\* the header " 1," was logged as the address "1"
C22_Witness ==
    \E i \in 1..Len(audit) :
        /\ hist[audit[i].call].arg.request.given
        /\ hist[audit[i].call].arg.request.META.HTTP_X_FORWARDED_FOR =
               Param(<<" ", "1", ",">>)
        /\ audit[i].ip_address = Param(<<"1">>)
        /\ hist[audit[i].call].arg.client_ip = Param(<<"1">>)

----------------------------------------------------------------------------
(* C23: when two updateTask requests on the same task run concurrently     *)
(* (both load the task before either saves) with payloads that name        *)
(* disjoint fields, then after both have completed the stored task carries *)
(* the new values of both requests.                                        *)

\* the fields the payload of call c names
PayloadFields(c) ==
    {hist[c].arg.validated_data[i][1] :
        i \in 1..Len(hist[c].arg.validated_data)}

\* the stored task has every value of the payload of call c
CarriesPayload(c) ==
    /\ hist[c].pk \in DOMAIN tasks
    /\ \A i \in 1..Len(hist[c].arg.validated_data) :
           tasks[hist[c].pk][hist[c].arg.validated_data[i][1]] =
               hist[c].arg.validated_data[i][2]

\* calls c and d are the only updates, both returned, and both loaded the
\* same version of the same task
ConcurrentUpdates(c, d) ==
    /\ c < d
    /\ hist[c].svc = "update_task" /\ hist[d].svc = "update_task"
    /\ hist[c].pk = hist[d].pk
    /\ hist[c].outcome = "returned" /\ hist[d].outcome = "returned"
    /\ hist[c].arg.task = hist[d].arg.task
    /\ \A e \in Calls \ {c, d} : hist[e].svc # "update_task"

C23_DisjointUpdatesMerge ==
    \A c, d \in Calls :
        /\ ConcurrentUpdates(c, d)
        /\ PayloadFields(c) \cap PayloadFields(d) = {}
        => CarriesPayload(c) /\ CarriesPayload(d)

----------------------------------------------------------------------------
(* C24: after a deleteTask call has returned or raised, the audit log      *)
(* holds a DELETE entry with status SUCCESS written by that call only if   *)
(* the task row no longer exists.                                          *)

C24_DeleteSuccessMeansRemoved ==
    \A c \in Calls :
        /\ hist[c].svc = "delete_task"
        /\ Completed(c)
        /\ EntriesWith(c, "DELETE", "task", "SUCCESS") # {}
        => hist[c].pk \notin DOMAIN tasks

----------------------------------------------------------------------------
(* C25: under every interleaving of two register requests whose usernames  *)
(* (or emails) are equal ignoring case, at most one User row is created,   *)
(* and the request that loses is answered with a 400 validation error, not *)
(* with a 500 server error.                                                *)

\* registrations c and d ask for the same username or the same email
SameIdentity(c, d) ==
    /\ hist[c].verb = "REGISTER" /\ hist[d].verb = "REGISTER"
    /\ \/ Lower(hist[c].arg.body.username) = Lower(hist[d].arg.body.username)
       \/ Lower(hist[c].arg.body.email) = Lower(hist[d].arg.body.email)

\* call d was answered without having created a row, and not because the
\* database was unavailable
Lost(d) ==
    /\ hist[d].resp # NoResp
    /\ ~hist[d].mutated
    /\ hist[d].caught.type # "OperationalError"

C25_RegisterRace ==
    \A c, d \in Calls :
        c # d /\ SameIdentity(c, d) =>
            /\ ~(hist[c].mutated /\ hist[d].mutated)
            /\ hist[c].mutated /\ Lost(d) => hist[d].resp.code = 400

====
